---- MODULE Spec2Model ----
(***************************************************************************)
(* whisper-ware: the backend supervisor loop, one backend attempt (device  *)
(* resolution, format validation, engine configuration, the two frame      *)
(* bridges, the capture and render streams), the processor loop, the tray  *)
(* menu handler and the device-change watcher, as a state machine; and the *)
(* start of the program (main and app), the configuration store and the    *)
(* thread that saves it to the parameter file, as a second one.            *)
(***************************************************************************)
EXTENDS Integers, Sequences, FiniteSets, TLC

\* ------------------------------------------------------------------ bounds
\* frames per block (the program uses 512; the model scales it down)
BLOCK_SIZE == 2
\* calls to backend over one disturbed run
MaxAttempts == 2
\* tray-menu clicks, device-topology events and stream failures over one
\* disturbed run
MaxEvents == 1
\* calls that write to the configuration store over one run
MaxWrites == 2
\* failures of the save thread's file operations over one run
MaxFaults == 1

\* ------------------------------------------------------- program constants
\* sleep(Duration::from_millis(100))
RetryDelayMs == 100
\* const SILENCE: [f32; 2] = [0_f32, 0_f32]
SILENCE == <<0, 0>>
\* bounded::<[f32; 2]>(BLOCK_SIZE * 4)
Capacity == BLOCK_SIZE * 4

\* The environment of one run is one of four kinds. A "long" run is one
\* undisturbed attempt whose capture device delivers enough frames to fill
\* a bridge and overflow it by a block; a "short" run has MaxAttempts
\* attempts, MaxEvents disturbances and one block of frames and one more;
\* a "stored" run is one undisturbed attempt of a program that found device
\* selections in its parameter file, with a single frame; a "failure" run
\* is a session that one disturbance meets and the attempt that follows
\* it, with one block of frames and one more.
Scenarios == {"long", "short", "stored", "failure"}
FrameBudget(sc) ==
    IF sc = "long" THEN Capacity + BLOCK_SIZE + 1
    ELSE IF sc = "stored" THEN 1 ELSE BLOCK_SIZE + 1
AttemptBudget(sc) ==
    IF sc = "short" THEN MaxAttempts ELSE IF sc = "failure" THEN 2 ELSE 1
EventBudget(sc) ==
    IF sc = "short" THEN MaxEvents ELSE IF sc = "failure" THEN 1 ELSE 0
\* calls that write to the store: MaxWrites in a "short" run, one otherwise
WriteBudget(sc) == IF sc = "short" THEN MaxWrites ELSE 1

\* ------------------------------------------------------------------ strings
\* a string is a sequence of characters, so that name.contains(other) is
\* computed and not assumed
Default == <<"D", "e", "f", "a", "u", "l", "t">>
Mic == <<"M", "i", "c">>
UsbMic == <<"U", "S", "B", " ", "M", "i", "c">>
Spk == <<"S", "p", "k">>

\* str::contains: other occurs in name as a contiguous substring
Contains(name, other) ==
    \E i \in 0..(Len(name) - Len(other)) :
        \A k \in 1..Len(other) : name[i + k] = other[k]

\* ------------------------------------------------------------ the platform
None == [none |-> TRUE]

Dev(n, r, c) == [name |-> n, rate |-> r, channels |-> c]

\* the audio endpoints the platform can present: per role the devices in
\* enumeration order and the default device
Worlds == <<
    [inputs |-> <<Dev(UsbMic, 48000, 2), Dev(Mic, 48000, 2)>>,
     outputs |-> <<Dev(Spk, 48000, 2)>>,
     defaultInput |-> Dev(Mic, 48000, 2), defaultOutput |-> Dev(Spk, 48000, 2)],
    [inputs |-> <<>>,
     outputs |-> <<Dev(Spk, 48000, 2)>>,
     defaultInput |-> None, defaultOutput |-> Dev(Spk, 48000, 2)],
    [inputs |-> <<Dev(Mic, 48000, 2)>>,
     outputs |-> <<>>,
     defaultInput |-> Dev(Mic, 48000, 2), defaultOutput |-> None],
    [inputs |-> <<Dev(Mic, 44100, 2)>>,
     outputs |-> <<Dev(Spk, 48000, 2)>>,
     defaultInput |-> Dev(Mic, 44100, 2), defaultOutput |-> Dev(Spk, 48000, 2)],
    [inputs |-> <<Dev(Mic, 48000, 2)>>,
     outputs |-> <<Dev(Spk, 48000, 1)>>,
     defaultInput |-> Dev(Mic, 48000, 2), defaultOutput |-> Dev(Spk, 48000, 1)]
>>

\* u32 as f32: a 24-bit significand, round to nearest, ties to even
RECURSIVE Ulp(_, _)
Ulp(n, u) == IF n < 16777216 * u THEN u ELSE Ulp(n, 2 * u)

AsF32(n) ==
    LET u == Ulp(n, 1)
        lo == (n \div u) * u
        r == n - lo
    IN  IF 2 * r < u THEN lo
        ELSE IF 2 * r > u THEN lo + u
        ELSE IF (lo \div u) % 2 = 0 THEN lo ELSE lo + u

\* ---------------------------------------------------- configuration values
\* an f32 of the store is its 32 bits, as AtomicF32 holds it; the model
\* uses 0.0 (0), 0.09090909 (1035611788), 0.33333334 (1051372203),
\* 0.48333332 (1056405367), 0.5 (1056964608), 1.0 (1065353216),
\* 20.0 (1101004800) and +infinity (2139095040)

\* f32::is_finite: the eight exponent bits are not all ones
IsFinite(v) == (v \div 8388608) % 256 # 255

\* config.rs 19-34: the numeric fields of Config, in declaration order
Fields == <<"sidechain_hpf", "input_level", "sensitivity", "ratio",
            "attack", "release", "makeup", "mix", "output_level",
            "sidechain", "full_bandwidth">>

\* config.rs 36-54: Config::default()
DefaultConfig ==
    [sidechain_hpf |-> 1101004800, input_level |-> 1065353216,
     sensitivity |-> 1056405367, ratio |-> 1065353216,
     attack |-> 0, release |-> 1035611788, makeup |-> 1051372203,
     mix |-> 1065353216, output_level |-> 1065353216,
     sidechain |-> 0, full_bandwidth |-> 1065353216,
     input_device |-> Default, output_device |-> Default]

\* config.rs 73-92, From<Config> for AtomicConfig: the eleven atomics (the
\* two strings of the store are the variables input_device, output_device)
AtomicConfig_from(c) ==
    [sidechain_hpf |-> c.sidechain_hpf, input_level |-> c.input_level,
     sensitivity |-> c.sensitivity, ratio |-> c.ratio, attack |-> c.attack,
     release |-> c.release, makeup |-> c.makeup, mix |-> c.mix,
     output_level |-> c.output_level, sidechain |-> c.sidechain,
     full_bandwidth |-> c.full_bandwidth]

\* config.rs 94-112, From<Arc<AtomicConfig>> for Config: eleven loads and
\* the two strings, taken here as one step
Config_from(a, i, o) ==
    [sidechain_hpf |-> a.sidechain_hpf, input_level |-> a.input_level,
     sensitivity |-> a.sensitivity, ratio |-> a.ratio, attack |-> a.attack,
     release |-> a.release, makeup |-> a.makeup, mix |-> a.mix,
     output_level |-> a.output_level, sidechain |-> a.sidechain,
     full_bandwidth |-> a.full_bandwidth, input_device |-> i,
     output_device |-> o]

\* serde_json's serialize_f32: a finite value is written as the shortest
\* decimal that reads back as the same f32, a non-finite one as null
JsonNumber(v) == IF IsFinite(v) THEN <<"number", v>> ELSE <<"null">>

JsonString(str) == <<"string", str>>

\* #[derive(Serialize)] and to_writer_pretty: one member per field
to_writer_pretty(c) ==
    [sidechain_hpf |-> JsonNumber(c.sidechain_hpf),
     input_level |-> JsonNumber(c.input_level),
     sensitivity |-> JsonNumber(c.sensitivity),
     ratio |-> JsonNumber(c.ratio), attack |-> JsonNumber(c.attack),
     release |-> JsonNumber(c.release), makeup |-> JsonNumber(c.makeup),
     mix |-> JsonNumber(c.mix), output_level |-> JsonNumber(c.output_level),
     sidechain |-> JsonNumber(c.sidechain),
     full_bandwidth |-> JsonNumber(c.full_bandwidth),
     input_device |-> JsonString(c.input_device),
     output_device |-> JsonString(c.output_device)]

\* #[derive(Deserialize)] and from_reader: every numeric member must be a
\* number (null is not an f32), or the result is Err(Json)
Parses(doc) == \A k \in 1..Len(Fields) : doc[Fields[k]][1] = "number"

from_reader(doc) ==
    [sidechain_hpf |-> doc.sidechain_hpf[2],
     input_level |-> doc.input_level[2],
     sensitivity |-> doc.sensitivity[2], ratio |-> doc.ratio[2],
     attack |-> doc.attack[2], release |-> doc.release[2],
     makeup |-> doc.makeup[2], mix |-> doc.mix[2],
     output_level |-> doc.output_level[2],
     sidechain |-> doc.sidechain[2],
     full_bandwidth |-> doc.full_bandwidth[2],
     input_device |-> doc.input_device[2],
     output_device |-> doc.output_device[2]]

\* the parameter file: absent, present with no bytes, present with the
\* first part of a document, present with text that is no document of a
\* Config, or present with a whole document
Absent == [state |-> "absent", doc |-> None]

Empty == [state |-> "empty", doc |-> None]

Partial == [state |-> "partial", doc |-> None]

Garbage == [state |-> "garbage", doc |-> None]

Complete(doc) == [state |-> "complete", doc |-> doc]

\* what from_reader makes of the file: Err(Json) unless it holds a whole
\* document that parses
Readable(f) == f.state = "complete" /\ Parses(f.doc)

\* a Config an earlier run of the program can have left in the file
StoredConfig ==
    [DefaultConfig EXCEPT !.input_level = 1056964608, !.input_device = Mic,
                          !.output_device = Spk]

\* the parameter file as a starting process can find it
Files ==
    {Absent, Garbage, Empty,
     Complete(to_writer_pretty(DefaultConfig)),
     Complete(to_writer_pretty(StoredConfig)),
     Complete(to_writer_pretty([StoredConfig EXCEPT !.ratio = 2139095040]))}

\* the values and the indices the engine passes to automate
Values == {1065353216, 1056964608, 2139095040}

Indices == {0 - 1, 0, 1, 10, 11}

\* the device selections a parameter file can hold at the start
StoredInputs == {Mic, UsbMic}

StoredOutputs == {Default, Spk}

\* ------------------------------------------------------------------- state
VARIABLES
    scenario,       \* the kind of run, fixed at the start
    pc,             \* where the backend thread is
    run,            \* run: Arc<AtomicBool>
    initialize,     \* let mut initialize = true
    last_error,     \* let mut last_error: Option<ErrorKind>
    result,         \* what the last finished backend call returned
    delay,          \* milliseconds of the sleep in progress, 0 when none
    attempts,       \* calls to backend so far
    passed,         \* attempts that passed resolution and validation so far
    world,          \* index into Worlds: the endpoints present now
    input_device,   \* CONFIG.input_device
    output_device,  \* CONFIG.output_device
    inDev,          \* let input_device (the resolved device) of this attempt
    outDev,         \* let output_device of this attempt
    engine,         \* the plugin instance: sample rate, block size, and the
                    \* calls of init, set_sample_rate and set_block_size so far
    bridges,        \* the two bounded channels of this attempt exist
    inq,            \* frames queued in the input bridge
    outq,           \* frames queued in the output bridge
    inStream,       \* input_stream of this attempt
    outStream,      \* output_stream of this attempt
    renderWait,     \* the render callback is parked in output_receiver.recv()
    position,       \* processor: let mut position
    inputs,         \* processor: let mut inputs
    outputs,        \* processor: let mut outputs
    sendIdx,        \* processor: frames of outputs already offered to the sender
    captured,       \* frames the capture device delivered so far
    deqLog,         \* frames the processor dequeued in this session
    engineIn,       \* the blocks handed to instance.process in this session
    sentLog,        \* frames the output bridge accepted in this session
    offered,        \* frames offered to the output bridge in this session
    rendered,       \* frames the render callback wrote in this session
    registered,     \* the watcher's notification callback is registered
    pending,        \* messages in the watcher's mpsc channel
    heard,          \* the kinds of notification delivered to the callback
                    \* of the latest wait, until the next call to backend
    events,         \* menu clicks, device events and stream failures so far
    previous,       \* what the backend call before the last returned
    base,           \* frames captured before the bridges of this attempt were made
    log,            \* the lines written to whisper_ware.log (LevelFilter::Warn)
    app_pc,         \* where main and app are
    app_error,      \* the error app returned
    loads,          \* calls to PluginLoader::load so far
    boxes,          \* message boxes shown so far
    spawned,        \* the backend supervisor thread was spawned
    parameters,     \* the plugin instance's parameter object
    created,        \* what AtomicConfig::new returned: "yes" or the error
    config,         \* CONFIG: the eleven AtomicF32 fields
    file,           \* the parameter file
    save_pc,        \* where save_thread is
    old_config,     \* save_thread: let mut old_config
    calls,          \* calls that wrote to the store so far
    last_call,      \* the latest such call and its arguments
    window,         \* stores into the fields since save_thread last woke
    served,         \* the value of window when save_thread last woke
    cycle_writes,   \* completed file writes since save_thread last woke
    cycle_faults,   \* failed file operations since save_thread last woke
    faults          \* failed file operations of save_thread so far

vars == <<scenario, pc, run, initialize, last_error, result, delay, attempts, passed, world,
          input_device, output_device, inDev, outDev, engine, bridges, inq, outq,
          inStream, outStream, renderWait, position, inputs, outputs, sendIdx,
          captured, deqLog, engineIn, sentLog, offered, rendered, registered,
          pending, heard, events, previous, base, log, app_pc, app_error, loads, boxes, spawned,
          parameters, created, config, file, save_pc, old_config, calls,
          last_call, window, served, cycle_writes, cycle_faults, faults>>

\* the variables of one attempt's pipeline
pipe == <<bridges, inq, outq, inStream, outStream, renderWait, position,
          inputs, outputs, sendIdx, deqLog, engineIn, sentLog, offered, rendered>>

\* the watcher's variables
watch == <<registered, pending, heard>>

\* the platform and the configuration
env == <<scenario, world, input_device, output_device, events, delay>>

\* the backend thread's own variables
thread == <<pc, run, initialize, last_error, result, attempts, passed, inDev,
            outDev, engine, captured, previous>>

\* the start of the program, the store's numeric fields, the parameter
\* file and the save thread
persist == <<app_pc, app_error, loads, boxes, spawned, parameters, created,
             config, file, save_pc, old_config, calls, last_call, window,
             served, cycle_writes, cycle_faults, faults>>

ZeroBuffers == [c \in 1..3 |-> [j \in 1..BLOCK_SIZE |-> 0]]

Applied_Swapped(a) ==
    [i \in 0..10 |->
        IF i = 0 THEN a.input_level
        ELSE IF i = 1 THEN a.sidechain_hpf
        ELSE a[Fields[i + 1]]]

\* apply_parameters, config.rs 216-230: the eleven calls of
\* parameters.set_parameter(i, self.<field>.load(Relaxed)), as the
\* parameter object they leave
Applied(a) ==
    [i \in 0..10 |->
        CASE i = 0 -> a.sidechain_hpf
          [] i = 1 -> a.input_level
          [] i = 2 -> a.sensitivity
          [] i = 3 -> a.ratio
          [] i = 4 -> a.attack
          [] i = 5 -> a.release
          [] i = 6 -> a.makeup
          [] i = 7 -> a.mix
          [] i = 8 -> a.output_level
          [] i = 9 -> a.sidechain
          [] i = 10 -> a.full_bandwidth]

\* the n-th frame the capture device delivers: left sample n, right sample -n
Frame(n) == <<n, 0 - n>>

Init ==
    /\ scenario \in Scenarios
    /\ pc = "start"
    /\ run = TRUE
    /\ initialize = TRUE
    /\ last_error = "None"
    /\ result = "None"
    /\ delay = 0
    /\ attempts = 0
    /\ passed = 0
    /\ world \in 1..Len(Worlds)
    /\ input_device \in IF scenario = "stored" THEN StoredInputs ELSE {Default}
    /\ output_device \in IF scenario = "stored" THEN StoredOutputs ELSE {Default}
    /\ inDev = None
    /\ outDev = None
    /\ engine = [sample_rate |-> 0, block_size |-> 0, inits |-> 0,
                 rate_calls |-> 0, size_calls |-> 0]
    /\ bridges = FALSE
    /\ inq = <<>>
    /\ outq = <<>>
    /\ inStream = "none"
    /\ outStream = "none"
    /\ renderWait = FALSE
    /\ position = 0
    /\ inputs = ZeroBuffers
    /\ outputs = ZeroBuffers
    /\ sendIdx = 0
    /\ captured = 0
    /\ deqLog = <<>>
    /\ engineIn = <<>>
    /\ sentLog = <<>>
    /\ offered = 0
    /\ rendered = <<>>
    /\ registered = FALSE
    /\ pending = 0
    /\ heard = {}
    /\ events = 0
    /\ previous = "None"
    /\ base = 0
    /\ log = <<>>
    /\ app_pc = "running"
    /\ app_error = "None"
    /\ loads = 1
    /\ boxes = 0
    /\ spawned = TRUE
    /\ created = "yes"
    /\ config = AtomicConfig_from(DefaultConfig)
    /\ parameters = Applied(config)
    /\ old_config = Config_from(config, input_device, output_device)
    /\ file = Complete(to_writer_pretty(old_config))
    /\ save_pc = "sleep"
    /\ calls = 0
    /\ last_call = <<"none">>
    /\ window = 0
    /\ served = 0
    /\ cycle_writes = 0
    /\ cycle_faults = 0
    /\ faults = 0

\* ------------------------------------------------------- device resolution
device_by_name_Exact(device, other) == device.name = other

\* device_by_name: the device's name contains the selection
device_by_name(device, other) == Contains(device.name, other)

\* Iterator::find: the first device in enumeration order that matches
Find(devices, other) ==
    LET hits == {i \in 1..Len(devices) : device_by_name(devices[i], other)}
    IN  IF hits = {} THEN None
        ELSE devices[CHOOSE i \in hits : \A k \in hits : i <= k]

ResolveInput(w, name) ==
    IF name = Default THEN w.defaultInput ELSE Find(w.inputs, name)

ResolveOutput(w, name) ==
    IF name = Default THEN w.defaultOutput ELSE Find(w.outputs, name)

\* the error of the format check, "Ok" when the pair is accepted
Validate_RatesOnly(i, o) ==
    IF AsF32(i.rate) # AsF32(o.rate) THEN "InvalidConfiguration(rates)" ELSE "Ok"

Validate(i, o) ==
    IF AsF32(i.rate) # AsF32(o.rate) THEN "InvalidConfiguration(rates)"
    ELSE IF i.channels # 2 \/ o.channels # 2 THEN "InvalidConfiguration(stereo)"
    ELSE "Ok"

\* backend returns Err(kind)
Fail(kind) ==
    /\ result' = kind
    /\ pc' = "returned"

\* --------------------------------------------------------------- backend
\* lines 236-256: read the selections, enumerate, resolve both devices
BackendResolve ==
    /\ spawned
    /\ pc = "start"
    /\ attempts < AttemptBudget(scenario)
    /\ attempts' = attempts + 1
    /\ \/ /\ Fail("Devices")
          /\ UNCHANGED <<inDev, outDev>>
       \/ LET i == ResolveInput(Worlds[world], input_device)
              o == ResolveOutput(Worlds[world], output_device)
          IN  IF i = None
              THEN Fail("NoInputDevice") /\ UNCHANGED <<inDev, outDev>>
              ELSE IF o = None
              THEN Fail("NoOutputDevice") /\ UNCHANGED <<inDev, outDev>>
              ELSE /\ inDev' = i
                   /\ outDev' = o
                   /\ pc' = "validate"
                   /\ UNCHANGED result
    /\ UNCHANGED <<run, initialize, last_error, passed, engine, captured>>
    /\ heard' = {}
    /\ UNCHANGED <<pipe, registered, pending, env>>
    /\ UNCHANGED <<previous, log, persist, base>>

\* lines 261-274: query both default configs, compare rates and channels
BackendValidate ==
    /\ pc = "validate"
    /\ \/ /\ Fail("DefaultStreamConfig")
          /\ UNCHANGED passed
       \/ IF Validate(inDev, outDev) = "Ok"
          THEN /\ pc' = "configure"
               /\ passed' = passed + 1
               /\ UNCHANGED result
          ELSE /\ Fail(Validate(inDev, outDev))
               /\ UNCHANGED passed
    /\ UNCHANGED <<run, initialize, last_error, attempts, inDev, outDev, engine, captured>>
    /\ UNCHANGED <<pipe, watch, env>>
    /\ UNCHANGED <<previous, log, persist, base>>

\* lines 276-282: set_sample_rate, set_block_size, init on the first pass
BackendConfigure_OnlyFirst ==
    /\ pc = "configure"
    /\ engine' = IF initialize
                 THEN [sample_rate |-> AsF32(inDev.rate),
                       block_size |-> BLOCK_SIZE,
                       inits |-> engine.inits + 1,
                       rate_calls |-> engine.rate_calls + 1,
                       size_calls |-> engine.size_calls + 1]
                 ELSE engine
    /\ initialize' = FALSE
    /\ pc' = "bridges"
    /\ UNCHANGED <<run, last_error, result, attempts, passed, inDev, outDev, captured>>
    /\ UNCHANGED <<pipe, watch, env>>
    /\ UNCHANGED <<previous, log, persist, base>>

BackendConfigure_KeepsFlag ==
    /\ pc = "configure"
    /\ engine' = [sample_rate |-> AsF32(inDev.rate),
                  block_size |-> BLOCK_SIZE,
                  inits |-> IF initialize THEN engine.inits + 1 ELSE engine.inits,
                  rate_calls |-> engine.rate_calls + 1,
                  size_calls |-> engine.size_calls + 1]
    /\ pc' = "bridges"
    /\ UNCHANGED <<run, initialize, last_error, result, attempts, passed, inDev, outDev,
                   captured>>
    /\ UNCHANGED <<pipe, watch, env>>
    /\ UNCHANGED <<previous, log, persist, base>>

BackendConfigure ==
    /\ pc = "configure"
    /\ engine' = [sample_rate |-> AsF32(inDev.rate),
                  block_size |-> BLOCK_SIZE,
                  inits |-> IF initialize THEN engine.inits + 1 ELSE engine.inits,
                  rate_calls |-> engine.rate_calls + 1,
                  size_calls |-> engine.size_calls + 1]
    /\ initialize' = FALSE
    /\ pc' = "bridges"
    /\ UNCHANGED <<run, last_error, result, attempts, passed, inDev, outDev, captured>>
    /\ UNCHANGED <<pipe, watch, env>>
    /\ UNCHANGED <<previous, log, persist, base>>

\* lines 285-291: the two bounded channels
BackendBridges ==
    /\ pc = "bridges"
    /\ bridges' = TRUE
    /\ inq' = <<>>
    /\ outq' = <<>>
    /\ pc' = "build_input"
    /\ base' = captured
    /\ UNCHANGED <<run, initialize, last_error, result, attempts, passed, inDev, outDev,
                   engine, captured, inStream, outStream, renderWait, position, inputs,
                   outputs, sendIdx, deqLog, engineIn, sentLog, offered, rendered>>
    /\ UNCHANGED <<watch, env>>
    /\ UNCHANGED <<previous, log, persist>>

\* lines 293-305: build_input_stream
BackendBuildInput ==
    /\ pc = "build_input"
    /\ \/ /\ Fail("BuildStream")
          /\ UNCHANGED inStream
       \/ /\ inStream' = "built"
          /\ pc' = "build_output"
          /\ UNCHANGED result
    /\ UNCHANGED <<run, initialize, last_error, attempts, passed, inDev, outDev, engine,
                   captured, bridges, inq, outq, outStream, renderWait, position, inputs,
                   outputs, sendIdx, deqLog, engineIn, sentLog, offered, rendered>>
    /\ UNCHANGED <<watch, env>>
    /\ UNCHANGED <<previous, log, persist, base>>

\* lines 307-321: build_output_stream
BackendBuildOutput ==
    /\ pc = "build_output"
    /\ \/ /\ Fail("BuildStream")
          /\ UNCHANGED outStream
       \/ /\ outStream' = "built"
          /\ pc' = "play_input"
          /\ UNCHANGED result
    /\ UNCHANGED <<run, initialize, last_error, attempts, passed, inDev, outDev, engine,
                   captured, bridges, inq, outq, inStream, renderWait, position, inputs,
                   outputs, sendIdx, deqLog, engineIn, sentLog, offered, rendered>>
    /\ UNCHANGED <<watch, env>>
    /\ UNCHANGED <<previous, log, persist, base>>

\* line 323: input_stream.play()
BackendPlayInput ==
    /\ pc = "play_input"
    /\ \/ /\ Fail("PlayStream")
          /\ UNCHANGED inStream
       \/ /\ inStream' = "playing"
          /\ pc' = "play_output"
          /\ UNCHANGED result
    /\ UNCHANGED <<run, initialize, last_error, attempts, passed, inDev, outDev, engine,
                   captured, bridges, inq, outq, outStream, renderWait, position, inputs,
                   outputs, sendIdx, deqLog, engineIn, sentLog, offered, rendered>>
    /\ UNCHANGED <<watch, env>>
    /\ UNCHANGED <<previous, log, persist, base>>

BackendPlayOutput_ResumesCursor ==
    /\ pc = "play_output"
    /\ \/ /\ Fail("PlayStream")
          /\ UNCHANGED <<outStream, position, inputs, outputs, sendIdx>>
       \/ /\ outStream' = "playing"
          /\ position' = captured % BLOCK_SIZE
          /\ inputs' = ZeroBuffers
          /\ outputs' = ZeroBuffers
          /\ sendIdx' = 0
          /\ pc' = "loop"
          /\ UNCHANGED result
    /\ UNCHANGED <<run, initialize, last_error, attempts, passed, inDev, outDev, engine,
                   captured, bridges, inq, outq, inStream, renderWait,
                   deqLog, engineIn, sentLog, offered, rendered>>
    /\ UNCHANGED <<watch, env>>
    /\ UNCHANGED <<previous, log, persist, base>>

\* lines 324-343: output_stream.play(), then processor is entered: its
\* buffers are zeroed and its position is 0
BackendPlayOutput ==
    /\ pc = "play_output"
    /\ \/ /\ Fail("PlayStream")
          /\ UNCHANGED <<outStream, position, inputs, outputs, sendIdx>>
       \/ /\ outStream' = "playing"
          /\ position' = 0
          /\ inputs' = ZeroBuffers
          /\ outputs' = ZeroBuffers
          /\ sendIdx' = 0
          /\ pc' = "loop"
          /\ UNCHANGED result
    /\ UNCHANGED <<run, initialize, last_error, attempts, passed, inDev, outDev, engine,
                   captured, bridges, inq, outq, inStream, renderWait,
                   deqLog, engineIn, sentLog, offered, rendered>>
    /\ UNCHANGED <<watch, env>>
    /\ UNCHANGED <<previous, log, persist, base>>

\* ------------------------------------------------------------- the bridges
\* the processor holds the input receiver and the output sender from the
\* creation of the bridges until it returns
ProcessorEndsAlive == bridges /\ pc # "returned"

\* the capture closure owns input_sender; it is dropped with its stream thread
InputSenderAlive == bridges /\ inStream # "dead"

\* the render closure owns output_receiver
OutputReceiverAlive == bridges /\ outStream # "dead"

\* Sender::try_send on a bounded channel: "closed" is Err(SendError),
\* "full" is Ok(false) and the value is dropped, "sent" is Ok(true)
try_send_Unbounded(queue, receiverAlive) ==
    IF ~receiverAlive THEN "closed" ELSE "sent"

try_send_OneMore(queue, receiverAlive) ==
    IF ~receiverAlive THEN "closed"
    ELSE IF Len(queue) > Capacity THEN "full"
    ELSE "sent"

try_send(queue, receiverAlive) ==
    IF ~receiverAlive THEN "closed"
    ELSE IF Len(queue) >= Capacity THEN "full"
    ELSE "sent"

\* the external engine, sample by sample: what it computes is opaque, the
\* model doubles every sample so that a processed frame differs from its input
EngineProcess(in) == [c \in 1..3 |-> [j \in 1..BLOCK_SIZE |-> 2 * in[c][j]]]

\* line 353: if position < BLOCK_SIZE { continue }, on the advanced position
BlockPending_Early(pos) == pos < BLOCK_SIZE - 1

BlockPending(pos) == pos < BLOCK_SIZE

\* inputs[0][position] = frame[0]; inputs[1][position] = frame[1]
Deinterleave_Swapped(buf, pos, frame) ==
    [buf EXCEPT ![1][pos + 1] = frame[2], ![2][pos + 1] = frame[1]]

Deinterleave(buf, pos, frame) ==
    [buf EXCEPT ![1][pos + 1] = frame[1], ![2][pos + 1] = frame[2]]

\* outputs[0].into_iter().zip(outputs[1].into_iter()), the j-th pair
Interleave(buf, j) == <<buf[1][j], buf[2][j]>>

\* ------------------------------------------------------------- processor
ProcCheck_IgnoresRun ==
    /\ pc = "loop"
    /\ pc' = "recv"
    /\ UNCHANGED <<run, initialize, last_error, result, attempts, passed, inDev, outDev,
                   engine, captured>>
    /\ UNCHANGED <<pipe, watch, env>>
    /\ UNCHANGED <<previous, log, persist, base>>

\* line 345: while run.load(Relaxed)
ProcCheck ==
    /\ pc = "loop"
    /\ pc' = IF run THEN "recv" ELSE "exit"
    /\ UNCHANGED <<run, initialize, last_error, result, attempts, passed, inDev, outDev,
                   engine, captured>>
    /\ UNCHANGED <<pipe, watch, env>>
    /\ UNCHANGED <<previous, log, persist, base>>

\* lines 346-364: receiver.recv()?, deinterleave, and on a full block
\* instance.process; recv parks while the bridge is empty and a sender lives
ProcRecv ==
    /\ pc = "recv"
    /\ \/ /\ inq # <<>>
          /\ LET frame == Head(inq)
                 filled == Deinterleave(inputs, position, frame)
             IN  /\ inq' = Tail(inq)
                 /\ deqLog' = Append(deqLog, frame)
                 /\ inputs' = filled
                 /\ IF BlockPending(position + 1)
                    THEN /\ position' = position + 1
                         /\ pc' = "loop"
                         /\ UNCHANGED <<outputs, engineIn, sendIdx>>
                    ELSE /\ position' = 0
                         /\ outputs' = EngineProcess(filled)
                         /\ engineIn' = Append(engineIn, filled)
                         /\ sendIdx' = 0
                         /\ pc' = "send"
          /\ UNCHANGED result
       \/ /\ inq = <<>>
          /\ ~InputSenderAlive
          /\ Fail("Receive")
          /\ UNCHANGED <<inq, deqLog, inputs, position, outputs, engineIn, sendIdx>>
    /\ UNCHANGED <<run, initialize, last_error, attempts, passed, inDev, outDev, engine,
                   captured, bridges, outq, inStream, outStream, renderWait, sentLog,
                   offered, rendered>>
    /\ UNCHANGED <<watch, env>>
    /\ UNCHANGED <<previous, log, persist, base>>

ProcSend_SkipsCheck ==
    /\ pc = "send"
    /\ LET frame == Interleave(outputs, sendIdx + 1)
           how == try_send(outq, OutputReceiverAlive)
       IN  IF how = "closed"
           THEN /\ Fail("Send")
                /\ UNCHANGED <<outq, sentLog, offered, sendIdx>>
           ELSE /\ outq' = IF how = "sent" THEN Append(outq, frame) ELSE outq
                /\ sentLog' = IF how = "sent" THEN Append(sentLog, frame) ELSE sentLog
                /\ offered' = offered + 1
                /\ sendIdx' = sendIdx + 1
                /\ pc' = IF sendIdx + 1 < BLOCK_SIZE THEN "send" ELSE "recv"
                /\ UNCHANGED result
    /\ UNCHANGED <<run, initialize, last_error, attempts, passed, inDev, outDev, engine,
                   captured, bridges, inq, inStream, outStream, renderWait, position,
                   inputs, outputs, deqLog, engineIn, rendered>>
    /\ UNCHANGED <<watch, env>>
    /\ UNCHANGED <<previous, log, persist, base>>

\* lines 367-369: sender.try_send([frame.0, frame.1])? for the next pair;
\* after the last pair the loop goes back to its condition at line 345
ProcSend ==
    /\ pc = "send"
    /\ LET frame == Interleave(outputs, sendIdx + 1)
           how == try_send(outq, OutputReceiverAlive)
       IN  IF how = "closed"
           THEN /\ Fail("Send")
                /\ UNCHANGED <<outq, sentLog, offered, sendIdx>>
           ELSE /\ outq' = IF how = "sent" THEN Append(outq, frame) ELSE outq
                /\ sentLog' = IF how = "sent" THEN Append(sentLog, frame) ELSE sentLog
                /\ offered' = offered + 1
                /\ sendIdx' = sendIdx + 1
                /\ pc' = IF sendIdx + 1 < BLOCK_SIZE THEN "send" ELSE "loop"
                /\ UNCHANGED result
    /\ UNCHANGED <<run, initialize, last_error, attempts, passed, inDev, outDev, engine,
                   captured, bridges, inq, inStream, outStream, renderWait, position,
                   inputs, outputs, deqLog, engineIn, rendered>>
    /\ UNCHANGED <<watch, env>>
    /\ UNCHANGED <<previous, log, persist, base>>

\* lines 372-374: run.store(true, Relaxed); Ok(())
ProcExit ==
    /\ pc = "exit"
    /\ run' = TRUE
    /\ result' = "Ok"
    /\ pc' = "returned"
    /\ UNCHANGED <<initialize, last_error, attempts, passed, inDev, outDev, engine,
                   captured>>
    /\ UNCHANGED <<pipe, watch, env>>
    /\ UNCHANGED <<previous, log, persist, base>>

\* the processor loop of the current session is running
Running == pc \in {"loop", "recv", "send", "exit"}

\* ------------------------------------------------------ stream callbacks
\* lines 295-299: the capture callback, one frame of its buffer
CaptureFrame ==
    /\ inStream = "playing"
    /\ captured < FrameBudget(scenario)
    /\ captured' = captured + 1
    /\ inq' = IF try_send(inq, ProcessorEndsAlive) = "sent"
              THEN Append(inq, Frame(captured + 1))
              ELSE inq
    /\ UNCHANGED <<pc, run, initialize, last_error, result, attempts, passed, inDev,
                   outDev, engine, bridges, outq, inStream, outStream, renderWait,
                   position, inputs, outputs, sendIdx, deqLog, engineIn, sentLog,
                   offered, rendered>>
    /\ UNCHANGED <<watch, env>>
    /\ UNCHANGED <<previous, log, persist, base>>

\* lines 309-315: the render callback, one frame of its buffer:
\* output_receiver.recv().unwrap_or(SILENCE); recv returns a queued frame,
\* fails once the sender is gone and the queue is empty, and parks otherwise
RenderFrame ==
    /\ outStream = "playing"
    /\ Len(rendered) < FrameBudget(scenario)
    /\ IF outq # <<>>
       THEN /\ rendered' = Append(rendered, Head(outq))
            /\ outq' = Tail(outq)
            /\ renderWait' = FALSE
       ELSE IF ~ProcessorEndsAlive
       THEN /\ rendered' = Append(rendered, SILENCE)
            /\ renderWait' = FALSE
            /\ UNCHANGED outq
       ELSE /\ ~renderWait
            /\ renderWait' = TRUE
            /\ UNCHANGED <<rendered, outq>>
    /\ UNCHANGED <<pc, run, initialize, last_error, result, attempts, passed, inDev,
                   outDev, engine, captured, bridges, inq, inStream, outStream,
                   position, inputs, outputs, sendIdx, deqLog, engineIn, sentLog, offered>>
    /\ UNCHANGED <<watch, env>>
    /\ UNCHANGED <<previous, log, persist, base>>

\* lines 300-303: the input stream's error callback clears run; the stream
\* thread then ends and drops the capture closure with input_sender
InputStreamError ==
    /\ inStream = "playing"
    /\ events < EventBudget(scenario)
    /\ events' = events + 1
    /\ run' = FALSE
    /\ inStream' = "dead"
    /\ log' = Append(log, <<"an error occurred on the input stream">>)
    /\ UNCHANGED <<previous, base>>
    /\ UNCHANGED <<pc, initialize, last_error, result, attempts, passed, inDev, outDev,
                   engine, captured, bridges, inq, outq, outStream, renderWait, position,
                   inputs, outputs, sendIdx, deqLog, engineIn, sentLog, offered, rendered>>
    /\ UNCHANGED <<watch, scenario, world, input_device, output_device, delay>>
    /\ UNCHANGED persist

\* lines 316-319: the output stream's error callback, on the thread that
\* runs the render callback (so not while that one is parked)
OutputStreamError ==
    /\ outStream = "playing"
    /\ ~renderWait
    /\ events < EventBudget(scenario)
    /\ events' = events + 1
    /\ run' = FALSE
    /\ outStream' = "dead"
    /\ log' = Append(log, <<"an error occurred on the output stream">>)
    /\ UNCHANGED <<previous, base>>
    /\ UNCHANGED <<pc, initialize, last_error, result, attempts, passed, inDev, outDev,
                   engine, captured, bridges, inq, outq, inStream, renderWait, position,
                   inputs, outputs, sendIdx, deqLog, engineIn, sentLog, offered, rendered>>
    /\ UNCHANGED <<watch, scenario, world, input_device, output_device, delay>>
    /\ UNCHANGED persist

\* ------------------------------------------------------------ the tray menu
\* menu_handler, Ok(1003): Restart Backend
MenuRestart ==
    /\ app_pc = "running"
    /\ events < EventBudget(scenario)
    /\ events' = events + 1
    /\ run' = FALSE
    /\ UNCHANGED <<pc, initialize, last_error, result, attempts, passed, inDev, outDev,
                   engine, captured, scenario, world, input_device, output_device, delay>>
    /\ UNCHANGED <<pipe, watch>>
    /\ UNCHANGED <<previous, log, persist, base>>

InputNames(w) == {w.inputs[i].name : i \in 1..Len(w.inputs)}

OutputNames(w) == {w.outputs[i].name : i \in 1..Len(w.outputs)}

\* menu_handler, Ok(1001): the device manager lists the enumerated names,
\* the user may pick one per role, and on close run is cleared if the pair
\* of selections differs from the one read when the window opened
MenuDeviceManager ==
    /\ events < EventBudget(scenario)
    /\ events' = events + 1
    /\ \E i \in {input_device} \cup InputNames(Worlds[world]) :
       \E o \in {output_device} \cup OutputNames(Worlds[world]) :
          /\ input_device' = i
          /\ output_device' = o
          /\ run' = IF <<input_device, output_device>> # <<i, o>> THEN FALSE ELSE run
    /\ UNCHANGED <<pc, initialize, last_error, result, attempts, passed, inDev, outDev,
                   engine, captured, scenario, world, delay>>
    /\ UNCHANGED <<pipe, watch>>
    /\ UNCHANGED <<previous, log, persist, base>>

\* ------------------------------------------------------------ the platform
NotificationKinds ==
    {"OnDeviceStateChanged", "OnDeviceAdded", "OnDeviceRemoved",
     "OnDefaultDeviceChanged", "OnPropertyValueChanged"}

\* device_callback.rs 185-236: what a notification does to the channel
\* of a registered callback: every kind but property changes sends ()
Notify_All(kind, n) == n + 1

Notify(kind, n) == IF kind = "OnPropertyValueChanged" THEN n ELSE n + 1

\* the platform changes its endpoints (or a property of one) and notifies
\* the registered callback
DeviceEvent ==
    /\ events < EventBudget(scenario)
    /\ events' = events + 1
    /\ \E kind \in NotificationKinds :
          /\ IF kind = "OnPropertyValueChanged"
             THEN world' = world
             ELSE world' \in (1..Len(Worlds)) \ {world}
          /\ pending' = IF registered THEN Notify(kind, pending) ELSE pending
          /\ heard' = IF registered THEN heard \cup {kind} ELSE heard
    /\ UNCHANGED <<pc, run, initialize, last_error, result, attempts, passed, inDev,
                   outDev, engine, captured, scenario, input_device, output_device,
                   delay, registered>>
    /\ UNCHANGED pipe
    /\ UNCHANGED <<previous, log, persist, base>>

\* ----------------------------------------------------------- the supervisor
DeviceAbsence == {"NoInputDevice", "NoOutputDevice"}

\* lines 199-217: where the match sends the loop: Ok and every other error
\* fall through to the sleep, the two device-absence errors call the watcher
Route_NeverWaits(kind) == "sleep"

Route_AlwaysWaits(kind) == IF kind = "Ok" THEN "sleep" ELSE "wait"

Route(kind) == IF kind \in DeviceAbsence THEN "wait" ELSE "sleep"

\* the kind of an error, without the text an InvalidConfiguration carries
Kind(error) ==
    IF error \in {"InvalidConfiguration(rates)", "InvalidConfiguration(stereo)"}
    THEN "InvalidConfiguration" ELSE error

\* PartialEq for ErrorKind: two errors are equal when of the same kind
SameError(a, b) == Kind(a) = Kind(b)

\* line 209: last_error.as_ref() != Some(&error)
Differs(last, error) == last = "None" \/ ~SameError(last, error)

\* lines 208-213: the arm of every error but the two device-absence ones
\* writes the error to the log when it differs from last_error
Logged(last, kind) ==
    IF kind \notin DeviceAbsence \cup {"Ok"} /\ Differs(last, kind)
    THEN <<"backend error", kind>> ELSE <<>>

\* lines 199-215, with the end of backend's scope: the streams, bridges and
\* device handles of the attempt are dropped, then the result is matched
SupervisorMatch ==
    /\ pc = "returned"
    /\ bridges' = FALSE
    /\ inq' = <<>>
    /\ outq' = <<>>
    /\ inStream' = "none"
    /\ outStream' = "none"
    /\ renderWait' = FALSE
    /\ position' = 0
    /\ inputs' = ZeroBuffers
    /\ outputs' = ZeroBuffers
    /\ sendIdx' = 0
    /\ deqLog' = <<>>
    /\ engineIn' = <<>>
    /\ sentLog' = <<>>
    /\ offered' = 0
    /\ rendered' = <<>>
    /\ inDev' = None
    /\ outDev' = None
    /\ pc' = Route(result)
    /\ delay' = IF Route(result) = "sleep" THEN RetryDelayMs ELSE delay
    /\ last_error' = IF result \in DeviceAbsence \cup {"Ok"} THEN last_error ELSE result
    /\ log' = IF Logged(last_error, result) = <<>> THEN log
              ELSE Append(log, Logged(last_error, result))
    /\ previous' = result
    /\ base' = 0
    /\ UNCHANGED <<run, initialize, result, attempts, passed, engine, captured,
                   scenario, world, input_device, output_device, events>>
    /\ UNCHANGED watch
    /\ UNCHANGED persist

\* line 217: sleep(Duration::from_millis(100)) is over, the loop goes round
SleepDone ==
    /\ pc = "sleep"
    /\ pc' = "start"
    /\ delay' = 0
    /\ UNCHANGED <<run, initialize, last_error, result, attempts, passed, inDev, outDev,
                   engine, captured, scenario, world, input_device, output_device,
                   events>>
    /\ UNCHANGED <<pipe, watch>>
    /\ UNCHANGED <<previous, log, persist, base>>

\* ---------------------------------------------------------------- watcher
\* device_callback.rs 57-95: COM is initialised, the enumerator and the
\* channel are created and the callback is registered, or the thread panics
WatcherRegister ==
    /\ pc = "wait"
    /\ \/ /\ registered' = TRUE
          /\ pending' = 0
          /\ heard' = {}
          /\ pc' = "waiting"
       \/ /\ pc' = "panicked"
          /\ UNCHANGED <<registered, pending, heard>>
    /\ UNCHANGED <<run, initialize, last_error, result, attempts, passed, inDev, outDev,
                   engine, captured>>
    /\ UNCHANGED <<pipe, env>>
    /\ UNCHANGED <<previous, log, persist, base>>

\* device_callback.rs 98-114 and main.rs 205-206: rx.recv() returns, the
\* callback is unregistered and released, and the loop continues
WatcherReturn ==
    /\ pc = "waiting"
    /\ pending > 0
    /\ registered' = FALSE
    /\ pending' = 0
    /\ UNCHANGED heard
    /\ pc' = "start"
    /\ UNCHANGED <<run, initialize, last_error, result, attempts, passed, inDev, outDev,
                   engine, captured>>
    /\ UNCHANGED <<pipe, env>>
    /\ UNCHANGED <<previous, log, persist, base>>

\* ------------------------------------------------------------------- system
Next ==
    \/ BackendResolve
    \/ BackendValidate
    \/ BackendConfigure
    \/ BackendBridges
    \/ BackendBuildInput
    \/ BackendBuildOutput
    \/ BackendPlayInput
    \/ BackendPlayOutput
    \/ ProcCheck
    \/ ProcRecv
    \/ ProcSend
    \/ ProcExit
    \/ CaptureFrame
    \/ RenderFrame
    \/ InputStreamError
    \/ OutputStreamError
    \/ MenuRestart
    \/ MenuDeviceManager
    \/ DeviceEvent
    \/ SupervisorMatch
    \/ SleepDone
    \/ WatcherRegister
    \/ WatcherReturn

Spec == Init /\ [][Next]_vars

\* the steps of the backend thread: the supervisor loop, backend, the
\* processor loop and the watcher
BackendThread ==
    \/ BackendResolve
    \/ BackendValidate
    \/ BackendConfigure
    \/ BackendBridges
    \/ BackendBuildInput
    \/ BackendBuildOutput
    \/ BackendPlayInput
    \/ BackendPlayOutput
    \/ ProcCheck
    \/ ProcRecv
    \/ ProcSend
    \/ ProcExit
    \/ SupervisorMatch
    \/ SleepDone
    \/ WatcherRegister
    \/ WatcherReturn

\* a run in which one disturbance meets a session
FairInit == Init /\ scenario = "failure"

\* the backend thread is a thread of the operating system: when it can
\* take a step it takes one; the callbacks, the menu and the platform
\* need not act
FairSpec == FairInit /\ [][Next]_vars /\ WF_vars(BackendThread)

\* ============================ the start of the program, the store, saving
\* what the backend thread, its pipeline and its platform are made of:
\* nothing of it moves before the thread is spawned
audio == <<thread, pipe, watch, base, scenario, world, events, delay>>

\* the two strings of the store
selections == <<input_device, output_device>>

\* main and app
start == <<app_pc, app_error, loads, boxes, spawned>>

\* save_thread and what is recorded of its work
saving == <<save_pc, old_config, served, cycle_writes, cycle_faults, faults>>

\* the calls into the store
calling == <<calls, last_call>>

Startup ==
    /\ world = 1
    /\ pc = "start"
    /\ run = TRUE
    /\ initialize = TRUE
    /\ last_error = "None"
    /\ result = "None"
    /\ delay = 0
    /\ attempts = 0
    /\ passed = 0
    /\ input_device = Default
    /\ output_device = Default
    /\ inDev = None
    /\ outDev = None
    /\ engine = [sample_rate |-> 0, block_size |-> 0, inits |-> 0,
                 rate_calls |-> 0, size_calls |-> 0]
    /\ bridges = FALSE
    /\ inq = <<>>
    /\ outq = <<>>
    /\ inStream = "none"
    /\ outStream = "none"
    /\ renderWait = FALSE
    /\ position = 0
    /\ inputs = ZeroBuffers
    /\ outputs = ZeroBuffers
    /\ sendIdx = 0
    /\ captured = 0
    /\ deqLog = <<>>
    /\ engineIn = <<>>
    /\ sentLog = <<>>
    /\ offered = 0
    /\ rendered = <<>>
    /\ registered = FALSE
    /\ pending = 0
    /\ heard = {}
    /\ events = 0
    /\ previous = "None"
    /\ base = 0
    /\ log = <<>>
    /\ app_pc = "class"
    /\ app_error = "None"
    /\ loads = 0
    /\ boxes = 0
    /\ spawned = FALSE
    /\ created = "no"
    /\ config = AtomicConfig_from(DefaultConfig)
    /\ parameters = [i \in 0..10 |-> 0]
    /\ old_config = DefaultConfig
    /\ file \in Files
    /\ save_pc = "none"
    /\ calls = 0
    /\ last_call = <<"none">>
    /\ window = 0
    /\ served = 0
    /\ cycle_writes = 0
    /\ cycle_faults = 0
    /\ faults = 0

\* the program is started; the store is written up to MaxWrites times
StoreInit == scenario = "short" /\ Startup

\* ---------------------------------------------------------- main and app
\* app returns Err(kind) through a `?`
AppFail(kind) ==
    /\ app_error' = kind
    /\ app_pc' = "failed"

\* main.rs 106-112: the window class is built and registered
AppClass ==
    /\ app_pc = "class"
    /\ \/ app_pc' = "load" /\ UNCHANGED app_error
       \/ AppFail("WindowsGui")
    /\ UNCHANGED <<loads, boxes, spawned, created, config, parameters, file, window, log>>
    /\ UNCHANGED <<audio, selections, saving, calling>>

\* main.rs 117: PluginLoader::load(...)?
AppLoad ==
    /\ app_pc = "load"
    /\ loads' = loads + 1
    /\ \/ app_pc' = "instance" /\ UNCHANGED app_error
       \/ AppFail("PluginLoad")
    /\ UNCHANGED <<boxes, spawned, created, config, parameters, file, window, log>>
    /\ UNCHANGED <<audio, selections, saving, calling>>

\* main.rs 120: loader.instance()?
AppInstance ==
    /\ app_pc = "instance"
    /\ \/ app_pc' = "apply" /\ UNCHANGED app_error
       \/ AppFail("PluginLoad")
    /\ UNCHANGED <<loads, boxes, spawned, created, config, parameters, file, window, log>>
    /\ UNCHANGED <<audio, selections, saving, calling>>

\* AtomicConfig::new returned Ok: the store holds c, the thread that saves
\* it is spawned, and apply_parameters hands the eleven fields to the plugin
Seed(c) ==
    /\ created' = "yes"
    /\ config' = AtomicConfig_from(c)
    /\ input_device' = c.input_device
    /\ output_device' = c.output_device
    /\ parameters' = Applied(AtomicConfig_from(c))
    /\ save_pc' = "start"
    /\ app_pc' = "editor"

\* AtomicConfig::new returned Err(kind): there is no store; what the
\* program does without one is not in the source, the run ends here
NoStore(kind) ==
    /\ created' = kind
    /\ app_pc' = "halted"
    /\ UNCHANGED <<config, input_device, output_device, parameters, save_pc>>

AppApply_NoApply ==
    LET Made(c) ==
            /\ created' = "yes"
            /\ config' = AtomicConfig_from(c)
            /\ input_device' = c.input_device
            /\ output_device' = c.output_device
            /\ save_pc' = "start"
            /\ app_pc' = "editor"
            /\ UNCHANGED parameters
    IN  /\ app_pc = "apply"
        /\ IF file.state = "absent"
           THEN \/ /\ file' = Complete(to_writer_pretty(DefaultConfig))
                   /\ Made(DefaultConfig)
                \/ /\ NoStore("ConfigWrite")
                   /\ UNCHANGED file
                \/ /\ NoStore("Json")
                   /\ file' \in {Empty, Partial}
           ELSE \/ /\ NoStore("ConfigRead")
                   /\ UNCHANGED file
                \/ /\ IF Readable(file)
                      THEN Made(from_reader(file.doc))
                      ELSE NoStore("Json")
                   /\ UNCHANGED file
        /\ UNCHANGED <<app_error, loads, boxes, spawned, window, log>>
        /\ UNCHANGED <<audio, calling, old_config, served, cycle_writes, cycle_faults,
                       faults>>

\* main.rs 121, the first use of CONFIG: AtomicConfig::new (config.rs
\* 122-143) reads the parameter file, or creates it with the defaults when
\* there is none, then apply_parameters (config.rs 216-230)
AppApply ==
    /\ app_pc = "apply"
    /\ IF file.state = "absent"
       THEN \/ /\ file' = Complete(to_writer_pretty(DefaultConfig))
               /\ Seed(DefaultConfig)
            \/ /\ NoStore("ConfigWrite")
               /\ UNCHANGED file
            \/ /\ NoStore("Json")
               /\ file' \in {Empty, Partial}
       ELSE \/ /\ NoStore("ConfigRead")
               /\ UNCHANGED file
            \/ /\ IF Readable(file)
                  THEN Seed(from_reader(file.doc))
                  ELSE NoStore("Json")
               /\ UNCHANGED file
    /\ UNCHANGED <<app_error, loads, boxes, spawned, window, log>>
    /\ UNCHANGED <<audio, calling, old_config, served, cycle_writes, cycle_faults,
                   faults>>

\* main.rs 124: instance.get_editor().ok_or(ErrorKind::EditorMissing)?
AppEditor ==
    /\ app_pc = "editor"
    /\ \/ app_pc' = "window" /\ UNCHANGED app_error
       \/ AppFail("EditorMissing")
    /\ UNCHANGED <<loads, boxes, spawned, created, config, parameters, file, window, log>>
    /\ UNCHANGED <<audio, selections, saving, calling>>

\* main.rs 126-160: the window, the icon, the menu and the tray icon
AppWindow ==
    /\ app_pc = "window"
    /\ \/ app_pc' = "spawn" /\ UNCHANGED app_error
       \/ AppFail("WindowsGui")
    /\ UNCHANGED <<loads, boxes, spawned, created, config, parameters, file, window, log>>
    /\ UNCHANGED <<audio, selections, saving, calling>>

\* main.rs 163-219: the run flag, the menu handler and the spawn of the
\* backend supervisor thread
AppSpawn_Retry ==
    /\ app_pc \in {"spawn", "failed"}
    /\ spawned' = TRUE
    /\ app_pc' = "running"
    /\ UNCHANGED <<app_error, loads, boxes, created, config, parameters, file, window, log>>
    /\ UNCHANGED <<audio, selections, saving, calling>>

AppSpawn ==
    /\ app_pc = "spawn"
    /\ spawned' = TRUE
    /\ app_pc' = "running"
    /\ UNCHANGED <<app_error, loads, boxes, created, config, parameters, file, window, log>>
    /\ UNCHANGED <<audio, selections, saving, calling>>

\* main.rs 93-101: app returned Err: one message box, then main returns
\* and the process ends with all its threads
MainReport ==
    /\ app_pc = "failed"
    /\ boxes' = boxes + 1
    /\ app_pc' = "exited"
    /\ UNCHANGED <<app_error, loads, spawned, created, config, parameters, file, window,
                   log>>
    /\ UNCHANGED <<audio, selections, saving, calling>>

\* ---------------------------------------------------------------- the store
\* the plugin instance is alive and can call its host
InstanceAlive == app_pc \in {"editor", "window", "spawn", "running"}

\* i32 as usize: a negative index wraps to the top of the range of usize
\* (the top of a 31-bit range here)
AsUsize(index) == IF index < 0 THEN index + 2147483647 + 1 ELSE index

\* config.rs 233-253: the field an index names gets the value; any other
\* index leaves the store as it is
set_parameter_Clamped(a, index, value) ==
    IF index < 0 THEN a
    ELSE IF index > 10 THEN [a EXCEPT ![Fields[11]] = value]
    ELSE [a EXCEPT ![Fields[index + 1]] = value]

set_parameter_Swapped(a, index, value) ==
    IF index = 0 THEN [a EXCEPT !.input_level = value]
    ELSE IF index = 1 THEN [a EXCEPT !.sidechain_hpf = value]
    ELSE IF index \in 2..10 THEN [a EXCEPT ![Fields[index + 1]] = value]
    ELSE a

set_parameter(a, index, value) ==
    CASE index = 0 -> [a EXCEPT !.sidechain_hpf = value]
      [] index = 1 -> [a EXCEPT !.input_level = value]
      [] index = 2 -> [a EXCEPT !.sensitivity = value]
      [] index = 3 -> [a EXCEPT !.ratio = value]
      [] index = 4 -> [a EXCEPT !.attack = value]
      [] index = 5 -> [a EXCEPT !.release = value]
      [] index = 6 -> [a EXCEPT !.makeup = value]
      [] index = 7 -> [a EXCEPT !.mix = value]
      [] index = 8 -> [a EXCEPT !.output_level = value]
      [] index = 9 -> [a EXCEPT !.sidechain = value]
      [] index = 10 -> [a EXCEPT !.full_bandwidth = value]
      [] OTHER -> a

\* config.rs 246-249: the arm of every other index
InvalidIndex(index) == index \notin 0..10

\* main.rs 72-77, automate: CONFIG.set_parameter(index as usize, value)
Automate ==
    /\ created = "yes"
    /\ InstanceAlive
    /\ calls < WriteBudget(scenario)
    /\ calls' = calls + 1
    /\ \E index \in Indices, value \in Values :
          /\ config' = set_parameter(config, AsUsize(index), value)
          /\ log' = IF InvalidIndex(AsUsize(index))
                    THEN Append(log, <<"Invalid parameter index">>)
                    ELSE log
          /\ window' = IF InvalidIndex(AsUsize(index)) THEN window ELSE window + 1
          /\ last_call' = <<"set_parameter", AsUsize(index), value>>
    /\ UNCHANGED <<created, parameters, file>>
    /\ UNCHANGED <<audio, selections, start, saving>>

\* config.rs 202-206: set_input_device
SetInputDevice ==
    /\ created = "yes"
    /\ app_pc = "running"
    /\ calls < WriteBudget(scenario)
    /\ calls' = calls + 1
    /\ \E device \in {Default, Mic} :
          /\ input_device' = device
          /\ last_call' = <<"set_input_device", device>>
    /\ UNCHANGED <<output_device, created, config, parameters, file, window, log>>
    /\ UNCHANGED <<audio, start, saving>>

\* config.rs 209-213: set_output_device
SetOutputDevice ==
    /\ created = "yes"
    /\ app_pc = "running"
    /\ calls < WriteBudget(scenario)
    /\ calls' = calls + 1
    /\ \E device \in {Default, Spk} :
          /\ output_device' = device
          /\ last_call' = <<"set_output_device", device>>
    /\ UNCHANGED <<input_device, created, config, parameters, file, window, log>>
    /\ UNCHANGED <<audio, start, saving>>

\* ------------------------------------------------------------ save_thread
\* the process has not ended
ProcessAlive == app_pc # "exited"

\* config.rs 257-258: the first snapshot
SaveStart ==
    /\ save_pc = "start"
    /\ ProcessAlive
    /\ old_config' = Config_from(config, input_device, output_device)
    /\ save_pc' = "sleep"
    /\ window' = 0
    /\ UNCHANGED <<served, cycle_writes, cycle_faults, faults>>
    /\ UNCHANGED <<created, config, parameters, file, log>>
    /\ UNCHANGED <<audio, selections, start, calling>>

\* config.rs 265: old_config == serde_config, the derived PartialEq
ConfigEq_Never(a, b) == FALSE

ConfigEq(a, b) == a = b

\* config.rs 260-269: the sleep of 300 ms is over; a new snapshot is
\* compared with old_config and replaces it when it differs
SavePoll ==
    /\ save_pc = "sleep"
    /\ ProcessAlive
    /\ LET serde_config == Config_from(config, input_device, output_device)
       IN  IF ConfigEq(old_config, serde_config)
           THEN UNCHANGED <<save_pc, old_config>>
           ELSE /\ old_config' = serde_config
                /\ save_pc' = "open"
    /\ served' = window
    /\ window' = 0
    /\ cycle_writes' = 0
    /\ cycle_faults' = 0
    /\ UNCHANGED faults
    /\ UNCHANGED <<created, config, parameters, file, log>>
    /\ UNCHANGED <<audio, selections, start, calling>>

\* config.rs 271-274 and 281-283: the file is opened for writing and
\* truncated, or the failure to open it is logged and the loop goes round
SaveOpen ==
    /\ save_pc = "open"
    /\ ProcessAlive
    /\ \/ /\ file.state # "absent"
          /\ file' = Empty
          /\ save_pc' = "write"
          /\ UNCHANGED <<log, faults, cycle_faults>>
       \/ /\ faults < MaxFaults
          /\ faults' = faults + 1
          /\ cycle_faults' = cycle_faults + 1
          /\ log' = Append(log, <<"Failed to save config file">>)
          /\ save_pc' = "sleep"
          /\ UNCHANGED file
    /\ UNCHANGED <<old_config, served, cycle_writes>>
    /\ UNCHANGED <<created, config, parameters, window>>
    /\ UNCHANGED <<audio, selections, start, calling>>

\* config.rs 277-279: to_writer_pretty(&mut file, &old_config)?: the
\* document is written, or the error ends save_thread
SaveWrite ==
    /\ save_pc = "write"
    /\ ProcessAlive
    /\ \/ /\ file' = Complete(to_writer_pretty(old_config))
          /\ cycle_writes' = cycle_writes + 1
          /\ save_pc' = "sleep"
          /\ UNCHANGED <<faults, cycle_faults>>
       \/ /\ faults < MaxFaults
          /\ faults' = faults + 1
          /\ cycle_faults' = cycle_faults + 1
          /\ file' \in {Empty, Partial}
          /\ save_pc' = "returned"
          /\ UNCHANGED cycle_writes
    /\ UNCHANGED <<old_config, served>>
    /\ UNCHANGED <<created, config, parameters, window, log>>
    /\ UNCHANGED <<audio, selections, start, calling>>

StoreNext ==
    \/ AppClass
    \/ AppLoad
    \/ AppInstance
    \/ AppApply
    \/ AppEditor
    \/ AppWindow
    \/ AppSpawn
    \/ MainReport
    \/ Automate
    \/ SetInputDevice
    \/ SetOutputDevice
    \/ SaveStart
    \/ SavePoll
    \/ SaveOpen
    \/ SaveWrite

StoreSpec == StoreInit /\ [][StoreNext]_vars

\* the steps of save_thread
SaveThread ==
    \/ SaveStart
    \/ SavePoll
    \/ SaveOpen
    \/ SaveWrite

\* save_thread is a thread of the operating system: its sleep ends and
\* its file operations return; main, app and the engine need not act
FairStoreSpec == StoreInit /\ [][StoreNext]_vars /\ WF_vars(SaveThread)

\* ------------------------------------- the program from start to sessions
\* the program is started, and one disturbance meets its session
LiveInit == scenario = "failure" /\ Startup

\* main and app, the engine's automation callback, the backend thread with
\* its streams, and the Restart Backend item of the menu
LiveNext ==
    \/ AppClass
    \/ AppLoad
    \/ AppInstance
    \/ AppApply
    \/ AppEditor
    \/ AppWindow
    \/ AppSpawn
    \/ MainReport
    \/ Automate
    \/ BackendResolve
    \/ BackendValidate
    \/ BackendConfigure
    \/ BackendBridges
    \/ BackendBuildInput
    \/ BackendBuildOutput
    \/ BackendPlayInput
    \/ BackendPlayOutput
    \/ ProcCheck
    \/ ProcRecv
    \/ ProcSend
    \/ ProcExit
    \/ CaptureFrame
    \/ RenderFrame
    \/ MenuRestart
    \/ SupervisorMatch
    \/ SleepDone

LiveSpec == LiveInit /\ [][LiveNext]_vars

\* ================================================================== claims
\* the attempt is past resolution and validation
Validated == pc \in {"configure", "bridges", "build_input", "build_output",
                     "play_input", "play_output"} \/ Running

InvalidConfiguration == {"InvalidConfiguration(rates)", "InvalidConfiguration(stereo)"}

IsSound(frame) == frame # SILENCE

\* the i-th frame the engine produced in this session, in block and
\* position order
Produced(i) ==
    LET out == EngineProcess(engineIn[((i - 1) \div BLOCK_SIZE) + 1])
        j == ((i - 1) % BLOCK_SIZE) + 1
    IN  <<out[1][j], out[2][j]>>

Increasing(seq) == \A a, b \in 1..Len(seq) : a < b => seq[a][1] < seq[b][1]

\* C1: while the session keeps running, every processed frame the processor
\* has offered to the output bridge was enqueued: an offer to a full bridge
\* ends the session with an error and is never dropped silently.
C1_FullOutputBridgeIsFatal == Running => Len(sentLog) = offered

\* C2: the render callback never waits for the processor: with the output
\* bridge empty it writes silence and goes on.
C2_RenderNeverStalls == ~renderWait

\* C3: in a session that dequeued L frames the engine was called exactly
\* L div BLOCK_SIZE times, the cursor holds the L mod BLOCK_SIZE frames of
\* the partial block, and the frames of the k-th submitted block are the
\* k-th BLOCK_SIZE frames dequeued in this session and no others (nothing
\* of a partial block of an earlier session).
C3_BlockIntegrity ==
    /\ Len(engineIn) = Len(deqLog) \div BLOCK_SIZE
    /\ position = Len(deqLog) % BLOCK_SIZE
    /\ \A k \in 1..Len(engineIn) :
          {<<engineIn[k][1][j], engineIn[k][2][j]>> : j \in 1..BLOCK_SIZE}
              = {deqLog[(k - 1) * BLOCK_SIZE + j] : j \in 1..BLOCK_SIZE}

\* a session ended with a block submitted and a partial block left over
C3_Witness ==
    /\ pc = "returned"
    /\ result = "Ok"
    /\ Len(engineIn) >= 1
    /\ Len(deqLog) % BLOCK_SIZE # 0

\* C4: the processor dequeues frames in capture order; the k-th engine call
\* gets frame j of the k-th block at position j, left in channel 0 and right
\* in channel 1; the output bridge accepts processed frames in block and
\* position order; the render callback writes them in that order.
C4_OrderPreservation ==
    /\ Increasing(deqLog \o inq)
    /\ \A i \in 1..Len(deqLog) : deqLog[i] = Frame(deqLog[i][1])
    /\ \A k \in 1..Len(engineIn) : \A j \in 1..BLOCK_SIZE :
          /\ engineIn[k][1][j] = deqLog[(k - 1) * BLOCK_SIZE + j][1]
          /\ engineIn[k][2][j] = deqLog[(k - 1) * BLOCK_SIZE + j][2]
    /\ Increasing(sentLog)
    /\ \A i \in 1..Len(sentLog) : \E n \in 1..offered : sentLog[i] = Produced(n)
    /\ Len(sentLog) = offered => \A i \in 1..offered : sentLog[i] = Produced(i)
    /\ SelectSeq(rendered, IsSound) \o outq = sentLog

\* the render callback has written frames of two blocks
C4_Witness == Len(SelectSeq(rendered, IsSound)) > BLOCK_SIZE

\* C5: a frame the capture callback delivers while the input bridge is full
\* is dropped: the queued frames stay as they are, backend does not return
\* and the run flag and the streams are untouched.
C5_FullInputBridgeDrops ==
    [][(captured' = captured + 1 /\ Len(inq) = Capacity)
          => (inq' = inq /\ pc' = pc /\ result' = result /\ run' = run
              /\ inStream' = inStream /\ outStream' = outStream)]_vars

\* the session runs on after a frame was dropped at a full input bridge
C5_Witness ==
    /\ Running
    /\ Len(inq) = Capacity
    /\ inq[Len(inq)][1] < captured

\* C6: every call to backend after the first is made with the run flag set.
C6_RunFlagSetAtStarting ==
    [][(attempts >= 1 /\ attempts' = attempts + 1) => run]_vars

\* C7: a device-absence error sends the supervisor to the watcher; while it
\* is there no attempt is made; it leaves the wait only with a notification
\* received and then stands at the top of the loop, which it leaves only by
\* one call to backend.
C7_Recovery ==
    [][/\ (pc = "returned" /\ result \in DeviceAbsence /\ pc' # pc) => pc' = "wait"
       /\ (pc \in {"wait", "waiting"}) => attempts' = attempts
       /\ (pc = "wait" /\ pc' # pc) => pc' \in {"waiting", "panicked"}
       /\ (pc = "waiting" /\ pc' # pc) => (pending > 0 /\ pc' = "start")
       /\ (pc = "start" /\ pc' # pc) => attempts' = attempts + 1]_vars

\* the watcher wait after a device-absence error has completed
C7_Witness ==
    /\ pc = "start"
    /\ result \in DeviceAbsence
    /\ attempts >= 1

\* C8: every other error sends the supervisor to the 100 ms sleep and not to
\* the watcher, the sleep ends at the top of the loop, and the supervisor
\* thread ends nowhere on this path.
C8_Retry ==
    /\ [][/\ (pc = "returned" /\ result \notin DeviceAbsence /\ pc' # pc)
                => (pc' = "sleep" /\ delay' = 100 /\ ~registered')
          /\ (pc = "sleep" /\ pc' # pc) => pc' = "start"]_vars
    /\ [](pc = "panicked" => result \in DeviceAbsence)

\* the sleep after a bridge receive error is over
C8_Witness ==
    /\ pc = "start"
    /\ result = "Receive"
    /\ last_error = "Receive"

\* C9: an attempt goes past validation only with equal rates and two
\* channels on both sides; a resolved pair that differs makes backend return
\* (InvalidConfiguration, unless the config query itself failed), and
\* InvalidConfiguration is returned with no bridge and no stream.
C9_FormatRejection ==
    /\ Validated =>
          /\ inDev.rate = outDev.rate
          /\ inDev.channels = 2
          /\ outDev.channels = 2
    /\ (pc = "returned" /\ inDev # None
            /\ (inDev.rate # outDev.rate \/ inDev.channels # 2 \/ outDev.channels # 2))
          => result \in InvalidConfiguration \cup {"DefaultStreamConfig"}
    /\ (pc = "returned" /\ result \in InvalidConfiguration) =>
          /\ inDev.rate # outDev.rate \/ inDev.channels # 2 \/ outDev.channels # 2
          /\ ~bridges
          /\ inStream = "none"
          /\ outStream = "none"

\* backend has returned InvalidConfiguration for differing sample rates
C9_Witness ==
    /\ pc = "returned"
    /\ result = "InvalidConfiguration(rates)"

\* C10: init is called at most once, in the first attempt that passes
\* resolution and validation, and before any process call.
C10_InitOnce ==
    /\ engine.inits <= 1
    /\ engine.inits = IF passed = 0 \/ (passed = 1 /\ pc = "configure") THEN 0 ELSE 1
    /\ initialize = (engine.inits = 0)
    /\ Len(engineIn) > 0 => engine.inits = 1

\* a second attempt has passed validation and configured the engine
C10_Witness ==
    /\ passed >= 2
    /\ pc = "bridges"
    /\ engine.inits = 1

\* ---------------------------------------------------------------- helpers
\* the Config a snapshot of the store gives now
Snapshot == Config_from(config, input_device, output_device)

\* the Config a store created from a file with this document holds
Reloaded(doc) ==
    Config_from(AtomicConfig_from(from_reader(doc)), from_reader(doc).input_device,
                from_reader(doc).output_device)

\* save_thread wakes from its sleep and takes its snapshot in this step
PollStep ==
    /\ save_pc = "sleep"
    /\ served' = window
    /\ window' = 0
    /\ cycle_writes' = 0
    /\ UNCHANGED <<config, input_device, output_device, calls, app_pc, created>>

IsSaveFailure(line) == line = <<"Failed to save config file">>

IsInvalidIndex(line) == line = <<"Invalid parameter index">>

IsBackendError(line) == line[1] = "backend error"

\* the supervisor matches the result of the backend call that just returned
MatchStep == pc = "returned" /\ pc' # "returned"

C12_PersistenceFailureNonFatal ==
    /\ save_pc # "returned"
    /\ Len(SelectSeq(log, IsSaveFailure)) = faults

\* C13: the startup load seeds the store with the values of a file that
\* parses; with no file, or a file that does not parse, the store is still
\* created, with the defaults, and a file that did not parse is left as it
\* was (a file that cannot be opened or created is not the claim's case).
C13_StartupLoad ==
    [][(app_pc = "apply" /\ app_pc' # "apply") =>
          IF file.state = "absent"
          THEN /\ created' \in {"yes", "ConfigWrite", "Json"}
               /\ created' = "yes" => Snapshot' = DefaultConfig
          ELSE \/ created' = "ConfigRead"
               \/ /\ created' = "yes"
                  /\ file' = file
                  /\ Snapshot' = IF Readable(file) THEN from_reader(file.doc)
                                 ELSE DefaultConfig
      ]_vars

\* C14: whenever the store exists, the parameter file holds a whole
\* document, also between two steps of a write by save_thread.
C14_CrashSafe == created = "yes" => file.state = "complete"

\* C15: the file save_thread has just written reads back as a store equal,
\* in every field, to the Config that was written.
C15_RoundTrip ==
    (save_pc = "sleep" /\ cycle_writes = 1) =>
        /\ Readable(file)
        /\ Reloaded(file.doc) = old_config

\* the first device in enumeration order whose name contains the selection
FirstMatch(devices, selection, d) ==
    \E i \in 1..Len(devices) :
        /\ d = devices[i]
        /\ Contains(devices[i].name, selection)
        /\ \A k \in 1..(i - 1) : ~Contains(devices[k].name, selection)

\* the selection names d among the devices of a role with this default
Resolves(selection, default, devices, d) ==
    IF selection = Default THEN default # None /\ d = default
    ELSE FirstMatch(devices, selection, d)

\* the selection names none of them
Unresolved(selection, default, devices) ==
    IF selection = Default THEN default = None
    ELSE \A i \in 1..Len(devices) : ~Contains(devices[i].name, selection)

\* C16: per role, "Default" resolves to the platform default and any other
\* selection to the first enumerated device whose name contains it; with no
\* such device the attempt fails with NoInputDevice (capture) or
\* NoOutputDevice (render) and opens nothing. (An attempt whose enumeration
\* itself fails returns Devices.)
C16_DeviceResolution ==
    [][attempts' = attempts + 1 =>
          LET w == Worlds[world]
              noIn == Unresolved(input_device, w.defaultInput, w.inputs)
              noOut == Unresolved(output_device, w.defaultOutput, w.outputs)
              nothingOpened == /\ pc' = "returned"
                               /\ ~bridges'
                               /\ inStream' = "none"
                               /\ outStream' = "none"
          IN  \/ result' = "Devices" /\ nothingOpened
              \/ noIn /\ result' = "NoInputDevice" /\ nothingOpened
              \/ ~noIn /\ noOut /\ result' = "NoOutputDevice" /\ nothingOpened
              \/ /\ pc' = "validate"
                 /\ Resolves(input_device, w.defaultInput, w.inputs, inDev')
                 /\ Resolves(output_device, w.defaultOutput, w.outputs, outDev')
      ]_vars

\* the stored selection "Mic" resolved to "USB Mic", the first device whose
\* name contains it, although a device named "Mic" follows
C16_Witness ==
    /\ pc = "validate"
    /\ input_device = Mic
    /\ inDev.name = UsbMic
    /\ output_device = Spk
    /\ outDev.name = Spk

\* C17: set_parameter with an index outside 0..10 writes one line to the
\* log and changes none of the eleven fields and neither selection; the
\* program goes on.
C17_InvalidIndex ==
    [][(/\ calls' = calls + 1
        /\ last_call'[1] = "set_parameter"
        /\ last_call'[2] \notin 0..10) =>
          /\ config' = config
          /\ input_device' = input_device
          /\ output_device' = output_device
          /\ log' = Append(log, <<"Invalid parameter index">>)
          /\ app_pc' = app_pc
          /\ save_pc' = save_pc
      ]_vars

\* automate was called with index -1 and with index 11, and the store still
\* holds the defaults
C17_Witness ==
    /\ calls = 2
    /\ last_call[1] = "set_parameter"
    /\ last_call[2] = 11
    /\ Len(SelectSeq(log, IsInvalidIndex)) = 2
    /\ config = AtomicConfig_from(DefaultConfig)

\* C18: the error of a failed attempt is logged unless the attempt before
\* it failed with the same error.
C18_Dedup ==
    [][(MatchStep /\ result # "Ok") =>
          IF previous \notin {"None", "Ok"} /\ SameError(previous, result)
          THEN log' = log
          ELSE log' = Append(log, <<"backend error", result>>)
      ]_vars

\* C19: when loading the plugin, creating its instance or getting its
\* editor fails, app returns the error: the backend thread is never
\* spawned, load is not called again, and main shows one message box and
\* returns.
C19_FatalStartup ==
    app_error \in {"PluginLoad", "EditorMissing"} =>
        /\ ~spawned
        /\ loads = 1
        /\ app_pc \in {"failed", "exited"}
        /\ boxes = IF app_pc = "exited" THEN 1 ELSE 0

\* the editor was missing, the message box was shown and main returned
C19_Witness ==
    /\ app_error = "EditorMissing"
    /\ app_pc = "exited"
    /\ boxes = 1
    /\ ~spawned

\* a stream's error callback has cleared run during Running
StreamFailed == Running /\ ~run /\ (inStream = "dead" \/ outStream = "dead")

\* the processor waits in receiver.recv() on an empty input bridge whose
\* sender is alive
Parked == pc = "recv" /\ inq = <<>> /\ InputSenderAlive

\* C20, as stated: after a stream failure cleared run, the processing loop
\* exits even when no further frame reaches the input bridge: it is never
\* left waiting in recv for a frame that will not come.
C20_ExitWithoutFrames ==
    ~(StreamFailed /\ Parked /\ captured = FrameBudget(scenario))

\* C20, amended: after a stream failure cleared run, the processing loop
\* exits and the supervisor goes to its next attempt, unless the processor
\* waits in recv on an empty input bridge whose sender is alive: then it
\* exits once a further frame is enqueued or the sender is dropped.
C20_Teardown == (StreamFailed /\ ~Parked) ~> (pc = "sleep")

\* the output stream failed during Running, the loop exited and the
\* supervisor sleeps before its second attempt
C20_Witness ==
    /\ pc = "sleep"
    /\ attempts = 1
    /\ result = "Ok"
    /\ log = <<<<"an error occurred on the output stream">>>>

\* C21: the loop reads run once per dequeue. While the loop is running
\* with run cleared, run is not set again; the loop dequeues only in recv,
\* one frame per visit, and calls the engine only with a dequeue; and from
\* its condition or its sends it does not come back to recv. So after run
\* is cleared the loop dequeues at most one more frame (when the clear
\* found it in recv) and calls the engine at most once more.
C21_CancellationLatency ==
    [][/\ (Running /\ ~run) => (~run' \/ ~Running')
       /\ Len(deqLog') > Len(deqLog) =>
             (pc = "recv" /\ pc' # "recv" /\ Len(deqLog') = Len(deqLog) + 1)
       /\ Len(engineIn') > Len(engineIn) =>
             (Len(deqLog') > Len(deqLog) /\ Len(engineIn') = Len(engineIn) + 1)
       /\ (Running /\ ~run /\ pc # "recv") => pc' # "recv"
      ]_vars

\* run was cleared while the loop was running (the loop found it set at
\* least once), a block went to the engine, and the loop has been left
C21_Witness ==
    /\ pc = "exit"
    /\ ~run
    /\ Len(deqLog) = BLOCK_SIZE
    /\ Len(engineIn) = 1
    /\ offered = BLOCK_SIZE

\* both selections name a device among the endpoints present now
Present ==
    /\ ~Unresolved(input_device, Worlds[world].defaultInput, Worlds[world].inputs)
    /\ ~Unresolved(output_device, Worlds[world].defaultOutput, Worlds[world].outputs)

\* C22: a change of the endpoints after backend failed with a device-absence
\* error and before the watcher registered its callback still ends the
\* wait: the supervisor is never blocked in the watcher, with no
\* notification received, while both selected devices are present.
C22_NoLostWakeup == ~(pc = "waiting" /\ pending = 0 /\ Present)

\* the call before the one that just returned failed with the same error
Repeated == previous \notin {"None", "Ok"} /\ SameError(previous, result)

\* C24: when the supervisor matches an error that ended an attempt or a
\* session, a line for that error is written to the log before the next
\* attempt, unless the attempt before it failed with the identical error.
C24_EveryErrorReported ==
    [][(MatchStep /\ result # "Ok" /\ ~Repeated) =>
          \E i \in (Len(log) + 1)..Len(log') :
              log'[i][1] = "backend error" /\ Kind(log'[i][2]) = Kind(result)
      ]_vars

\* C25: the input bridge and the output bridge never hold more than
\* 4 x BLOCK_SIZE frames each, whatever the order in which the capture
\* callback, the processor and the render callback run.
C25_BridgeCapacity ==
    /\ Len(inq) <= 4 * BLOCK_SIZE
    /\ Len(outq) <= 4 * BLOCK_SIZE

\* the output bridge is full and a processed frame offered to it was
\* refused, after the input bridge had been full as well
C25_Witness ==
    /\ Len(outq) = 4 * BLOCK_SIZE
    /\ offered > Len(sentLog)
    /\ captured > Len(deqLog) + Len(inq)

\* a call of set_parameter is made in this step, with a valid index
WriteStep ==
    /\ calls' = calls + 1
    /\ last_call'[1] = "set_parameter"
    /\ last_call'[2] \in 0..10

\* C26: set_parameter(i, v) with i in 0..10, called from automate, leaves
\* field i of the store equal to v and the other ten fields and both
\* selections as they were.
C26_WriteThrough ==
    [][WriteStep =>
          /\ config'[Fields[last_call'[2] + 1]] = last_call'[3]
          /\ \A k \in 1..Len(Fields) :
                k # last_call'[2] + 1 => config'[Fields[k]] = config[Fields[k]]
          /\ input_device' = input_device
          /\ output_device' = output_device
      ]_vars

\* automate(10, 0.5) was the only call: full_bandwidth is 0.5 and the rest
\* of the store holds what it held
C26_Witness ==
    /\ calls = 1
    /\ last_call = <<"set_parameter", 10, 1056964608>>
    /\ config.full_bandwidth = 1056964608
    /\ \A k \in 1..10 : config[Fields[k]] = parameters[k - 1]

\* C28: apply_parameters sends to engine parameter i the field that
\* set_parameter(i, .) writes. On the store as it was created, for each of
\* the eleven indices: writing v at index i changes what is applied at i
\* to v and nothing else that is applied, and echoing the applied value
\* leaves the store as it is. And on every automate call with a valid
\* index: what is applied at that index afterwards is the value written,
\* what is applied elsewhere is as before, and an echo of the applied value
\* leaves the store unchanged.
C28_SameMapping ==
    /\ [](calls = 0 =>
            \A i \in 0..10 : \A v \in Values :
                LET applied == Applied(set_parameter(config, i, v))
                IN  /\ applied[i] = v
                    /\ \A j \in 0..10 : j # i => applied[j] = Applied(config)[j]
                    /\ set_parameter(config, i, Applied(config)[i]) = config)
    /\ [][WriteStep =>
             LET i == last_call'[2]
                 v == last_call'[3]
             IN  /\ Applied(config')[i] = v
                 /\ \A j \in 0..10 : j # i => Applied(config')[j] = Applied(config)[j]
                 /\ v = Applied(config)[i] => config' = config
         ]_vars

\* the engine echoed the applied value of parameter 1 and the store is as
\* it was applied
C28_Witness ==
    /\ calls = 1
    /\ last_call = <<"set_parameter", 1, parameters[1]>>
    /\ parameters = Applied(config)

\* the attempt has configured the engine
Configured == pc \in {"bridges", "build_input", "build_output", "play_input",
                      "play_output"} \/ Running

\* C29: set_sample_rate and set_block_size have each been called once per
\* attempt that passed resolution and validation, and never in an attempt
\* that failed them; once the attempt has made its calls the engine holds
\* the rate of the resolved device and BLOCK_SIZE; and until it has, the
\* attempt has no bridge and no stream and has processed no block.
C29_EngineConfiguration ==
    /\ engine.rate_calls = IF pc = "configure" THEN passed - 1 ELSE passed
    /\ engine.size_calls = engine.rate_calls
    /\ Configured =>
          /\ engine.sample_rate = inDev.rate
          /\ engine.block_size = BLOCK_SIZE
    /\ pc \in {"start", "validate", "configure"} =>
          /\ ~bridges
          /\ inStream = "none"
          /\ outStream = "none"
          /\ engineIn = <<>>

\* the second session of a run has configured the engine and runs
C29_Witness ==
    /\ passed = 2
    /\ Running
    /\ engine.rate_calls = 2
    /\ engine.size_calls = 2
    /\ engine.sample_rate = 48000

\* a frame the capture device delivered since the bridges of this attempt
\* were made
OfThisSession(frame) == \E n \in (base + 1)..captured : frame = Frame(n)

\* a frame the engine made from a block of this session
ProcessedNow(frame) ==
    \E k \in 1..Len(engineIn) : \E j \in 1..BLOCK_SIZE :
        frame = Interleave(EngineProcess(engineIn[k]), j)

\* C30: the bridges of an attempt are new and empty and the processor
\* starts with its cursor at zero; every frame in the input bridge, every
\* frame dequeued and every frame of a block handed to the engine was
\* captured in this session, and every frame in the output bridge or
\* written by the render callback is silence or was processed in this
\* session.
C30_SessionIsolation ==
    /\ pc = "build_input" => (inq = <<>> /\ outq = <<>>)
    /\ (pc = "loop" /\ deqLog = <<>>) => position = 0
    /\ \A i \in 1..Len(inq) : OfThisSession(inq[i])
    /\ \A i \in 1..Len(deqLog) : OfThisSession(deqLog[i])
    /\ \A k \in 1..Len(engineIn) : \A j \in 1..BLOCK_SIZE :
          OfThisSession(<<engineIn[k][1][j], engineIn[k][2][j]>>)
    /\ \A i \in 1..Len(outq) : ProcessedNow(outq[i])
    /\ \A i \in 1..Len(rendered) : rendered[i] = SILENCE \/ ProcessedNow(rendered[i])

\* a session that ended with a partial block was followed by one that
\* handed a block to the engine and rendered a frame of it
C30_Witness ==
    /\ attempts = 2
    /\ base % BLOCK_SIZE # 0
    /\ Len(engineIn) = 1
    /\ Len(SelectSeq(rendered, IsSound)) >= 1

\* the program runs with its store and no file operation has failed
Steady == app_pc = "running" /\ created = "yes" /\ faults = 0

\* the parameter file reads back as the store's eleven values and two
\* selections
Saved == Readable(file) /\ Reloaded(file.doc) = Snapshot

\* C23: the calls that write to the store are finitely many; when file
\* operations succeed, from some point on the parameter file holds the
\* store's contents and stays so (a further write would truncate it).
C23_EventualPersistence == <>[](Steady => Saved)

\* the attempt configures the engine and goes on to its bridges: a session
\* starts
SessionStart == pc = "configure" /\ pc' = "bridges"

\* instance.process is called for the first time in this session
FirstBlock == Len(engineIn) = 0 /\ Len(engineIn') = 1

Waking == NotificationKinds \ {"OnPropertyValueChanged"}

\* wait_for_audio_device_change has returned to the supervisor loop
Returned == pc = "start" /\ ~registered /\ result \in DeviceAbsence

====
